---- MODULE Spec2Model ----
(***************************************************************************)
(* Model of domainer.py: download a tab-separated feed of (domain, date)   *)
(* lines, parse it, sort it by date, cache it in sorted_domains.txt, and   *)
(* answer date queries from the cache, optionally asking a chat service    *)
(* for an analysis of the matched domains.                                 *)
(*                                                                         *)
(* Text is modelled as sequences of one-character strings, so that         *)
(* str.strip, str.splitlines, str.split, datetime.strptime and the         *)
(* formatting of dates are computed character by character.                *)
(***************************************************************************)
EXTENDS Integers, Sequences, FiniteSets, TLC

\* Python's None, for values that are texts or dates: a tuple that is
\* neither a sequence of characters nor a <<year, month, day>>.
None == <<"None">>

TAB == "\t"
NL == "\n"
SP == " "

\* Characters removed by str.strip() that occur in the modelled alphabet.
Whitespace == {SP, TAB, NL}

Digits == {"0", "1", "2", "3", "4", "5", "6", "7", "8", "9"}

DigitVal(c) ==
    CASE c = "0" -> 0 [] c = "1" -> 1 [] c = "2" -> 2 [] c = "3" -> 3
      [] c = "4" -> 4 [] c = "5" -> 5 [] c = "6" -> 6 [] c = "7" -> 7
      [] c = "8" -> 8 [] c = "9" -> 9

DigitChar(n) ==
    CASE n = 0 -> "0" [] n = 1 -> "1" [] n = 2 -> "2" [] n = 3 -> "3"
      [] n = 4 -> "4" [] n = 5 -> "5" [] n = 6 -> "6" [] n = 7 -> "7"
      [] n = 8 -> "8" [] n = 9 -> "9"

----------------------------------------------------------------------------
(* String primitives of the Python runtime used by the program.            *)

\* s[from:] (1-based, inclusive).
Drop(s, n) == SubSeq(s, n + 1, Len(s))

Take(s, n) == SubSeq(s, 1, n)

RECURSIVE LStrip(_)
LStrip(s) ==
    IF s # <<>> /\ Head(s) \in Whitespace THEN LStrip(Tail(s)) ELSE s

RECURSIVE RStrip(_)
RStrip(s) ==
    IF s # <<>> /\ s[Len(s)] \in Whitespace THEN RStrip(Take(s, Len(s) - 1)) ELSE s

\* str.strip(): remove leading and trailing whitespace.
Strip(s) == RStrip(LStrip(s))

StartsWith(s, sep) == Len(s) >= Len(sep) /\ Take(s, Len(sep)) = sep

\* str.split(sep): cut at every non-overlapping occurrence of sep, scanning
\* from the left; the result always has at least one field.
RECURSIVE SplitFrom(_, _, _)
SplitFrom(s, sep, cur) ==
    IF s = <<>> THEN <<cur>>
    ELSE IF StartsWith(s, sep) THEN <<cur>> \o SplitFrom(Drop(s, Len(sep)), sep, <<>>)
    ELSE SplitFrom(Tail(s), sep, Append(cur, Head(s)))

Split(s, sep) == SplitFrom(s, sep, <<>>)

\* str.splitlines(): lines without their terminators; a final terminator
\* does not open a further line, and the empty string has no lines.
SplitLines(s) ==
    IF s = <<>> THEN <<>>
    ELSE LET parts == Split(s, <<NL>>)
         IN  IF parts[Len(parts)] = <<>> THEN Take(parts, Len(parts) - 1) ELSE parts

\* Iteration over a text file: each line keeps its terminating newline.
RECURSIVE FileLinesFrom(_, _)
FileLinesFrom(s, cur) ==
    IF s = <<>> THEN (IF cur = <<>> THEN <<>> ELSE <<cur>>)
    ELSE IF Head(s) = NL THEN <<Append(cur, NL)>> \o FileLinesFrom(Tail(s), <<>>)
    ELSE FileLinesFrom(Tail(s), Append(cur, Head(s)))

FileLines(s) == FileLinesFrom(s, <<>>)

RECURSIVE Join(_, _)
Join(lines, sep) ==
    IF lines = <<>> THEN <<>>
    ELSE IF Len(lines) = 1 THEN lines[1]
    ELSE lines[1] \o sep \o Join(Tail(lines), sep)

----------------------------------------------------------------------------
(* Dates: datetime.strptime(s, '%Y-%m-%d').date() and str(date).           *)

AllDigits(s) == \A i \in 1..Len(s) : s[i] \in Digits

RECURSIVE ToInt(_)
ToInt(s) == IF s = <<>> THEN 0 ELSE 10 * ToInt(Take(s, Len(s) - 1)) + DigitVal(s[Len(s)])

\* %Y is \d\d\d\d
MatchYear(s) == Len(s) = 4 /\ AllDigits(s)

\* %m is 1[0-2]|0[1-9]|[1-9]
MatchMonth(s) ==
    \/ Len(s) = 2 /\ s[1] = "1" /\ s[2] \in {"0", "1", "2"}
    \/ Len(s) = 2 /\ s[1] = "0" /\ s[2] \in Digits \ {"0"}
    \/ Len(s) = 1 /\ s[1] \in Digits \ {"0"}

\* %d is 3[0-1]|[1-2]\d|0[1-9]|[1-9]| [1-9]
MatchDay(s) ==
    \/ Len(s) = 2 /\ s[1] = "3" /\ s[2] \in {"0", "1"}
    \/ Len(s) = 2 /\ s[1] \in {"1", "2"} /\ s[2] \in Digits
    \/ Len(s) = 2 /\ s[1] = "0" /\ s[2] \in Digits \ {"0"}
    \/ Len(s) = 1 /\ s[1] \in Digits \ {"0"}
    \/ Len(s) = 2 /\ s[1] = SP /\ s[2] \in Digits \ {"0"}

IsLeap(y) == y % 4 = 0 /\ (y % 100 # 0 \/ y % 400 = 0)

DaysInMonth(y, m) ==
    IF m = 2 THEN (IF IsLeap(y) THEN 29 ELSE 28)
    ELSE IF m \in {4, 6, 9, 11} THEN 30 ELSE 31

\* The date <<year, month, day>>, or None where strptime raises ValueError.
Strptime(s) ==
    LET f == Split(s, <<"-">>)
    IN  IF Len(f) = 3 /\ MatchYear(f[1]) /\ MatchMonth(f[2]) /\ MatchDay(f[3])
        THEN LET y == ToInt(f[1])
                 m == ToInt(f[2])
                 d == ToInt(LStrip(f[3]))
             IN  IF y >= 1 /\ d <= DaysInMonth(y, m) THEN <<y, m, d>> ELSE None
        ELSE None

RECURSIVE Pad(_, _)
Pad(n, width) ==
    IF width = 0 THEN <<>> ELSE Append(Pad(n \div 10, width - 1), DigitChar(n % 10))

\* str(date): ISO format YYYY-MM-DD, zero padded.
DateStr(date) == Pad(date[1], 4) \o <<"-">> \o Pad(date[2], 2) \o <<"-">> \o Pad(date[3], 2)

\* date.__lt__: comparison of (year, month, day).
DateLT(a, b) ==
    \/ a[1] < b[1]
    \/ a[1] = b[1] /\ a[2] < b[2]
    \/ a[1] = b[1] /\ a[2] = b[2] /\ a[3] < b[3]

----------------------------------------------------------------------------
(* The functions of domainer.py.  A Record is the tuple <<domain, date>>.  *)

MsgMalformed == "Skipping malformed line"
MsgInvalidDate == "Skipping invalid date format"
MsgSaved == "Data successfully saved"
MsgWriteError == "Error writing to file"
MsgReadError == "Error reading file"
MsgNoDomains == "No domains available on date"
MsgDomains == "Domains available on date"
MsgNoDate == "Data successfully downloaded and sorted."
MsgAnalysis == "ChatGPT Analysis and Recommendations"
MsgNothingToAnalyze == "No domains provided for analysis."

ExitDownload == "Error: Unable to download data."
ExitNoEntries == "Error: No valid entries found."
ExitBadDate == "Error: Invalid date format. Use YYYY-MM-DD."
ExitStopIteration == "Traceback: StopIteration"
ExitOpenAIError == "Traceback: OpenAIError"

\* Exit status of a process that reached the end of main, and the value of
\* exit while the process runs.
ExitNormal == "exit 0"
Running == "running"

\* The called function returned without an uncaught exception.
NoException == "no exception"

\* The variable analysis before it is assigned.
NoAnalysis == "unassigned"

\* The body of the loops of parse_file_content and load_sorted_entries:
\* the fields of one line become a Record or a printed warning.
ParseFields(parts, acc) ==
    IF Len(parts) # 2
    THEN [entries |-> acc.entries, printed |-> Append(acc.printed, MsgMalformed)]
    ELSE LET date == Strptime(parts[2])
         IN  IF date = None
             THEN [entries |-> acc.entries, printed |-> Append(acc.printed, MsgInvalidDate)]
             ELSE [entries |-> Append(acc.entries, <<parts[1], date>>), printed |-> acc.printed]

RECURSIVE ParseLines(_, _)
ParseLines(lines, acc) ==
    IF lines = <<>> THEN acc
    ELSE ParseLines(Tail(lines), ParseFields(Split(Head(lines), <<TAB>>), acc))

\* parse_file_content(content): the Records and the warnings printed.
parse_file_content(content) ==
    ParseLines(SplitLines(Strip(content)), [entries |-> <<>>, printed |-> <<>>])

\* InsertByDate with the comparison slipped to "not greater": e goes before
\* the elements of equal date, and the sort is no longer stable.
RECURSIVE InsertByDate_Unstable(_, _)
InsertByDate_Unstable(sorted, e) ==
    IF sorted = <<>> THEN <<e>>
    ELSE IF ~DateLT(Head(sorted)[2], e[2]) THEN <<e>> \o sorted
    ELSE <<Head(sorted)>> \o InsertByDate_Unstable(Tail(sorted), e)

\* Position at which sorted() places e: after every element whose key is
\* not greater (the sort is stable).
RECURSIVE InsertByDate(_, _)
InsertByDate(sorted, e) ==
    IF sorted = <<>> THEN <<e>>
    ELSE IF DateLT(e[2], Head(sorted)[2]) THEN <<e>> \o sorted
    ELSE <<Head(sorted)>> \o InsertByDate(Tail(sorted), e)

RECURSIVE SortFrom(_, _)
SortFrom(rest, sorted) ==
    IF rest = <<>> THEN sorted ELSE SortFrom(Tail(rest), InsertByDate(sorted, Head(rest)))

\* sort_entries_by_date(entries) = sorted(entries, key=lambda x: x[1])
sort_entries_by_date(es) == SortFrom(es, <<>>)

\* The chunks save_to_file hands to the file, one per write: the header
\* line, then one line per row.
WriteChunks(header, rows) ==
    <<header \o <<NL>>>> \o [i \in 1..Len(rows) |-> rows[i] \o <<NL>>]

\* The outcomes of save_to_file(filename, header, rows) on a file whose
\* present content is old (None: no such file): complete, open() fails and
\* the file is untouched, or a write fails after the file was truncated and
\* k chunks went out.
save_to_file(old, header, rows) ==
    LET chunks == WriteChunks(header, rows)
    IN  {[file |-> Join(chunks, <<>>), printed |-> MsgSaved],
         [file |-> old, printed |-> MsgWriteError]}
        \cup {[file |-> Join(Take(chunks, k), <<>>), printed |-> MsgWriteError] :
                k \in 0..(Len(chunks) - 1)}

\* The rows main builds for the cache: f"{domain}, {date}".
CacheRows(es) == [i \in 1..Len(es) |-> es[i][1] \o <<",", SP>> \o DateStr(es[i][2])]

CacheHeader == <<"d", "o", "m", "a", "i", "n", ",", SP, "d", "a", "t", "e">>

AvailableHeader == <<"d", "o", "m", "a", "i", "n">>

RECURSIVE LoadLines(_, _)
LoadLines(lines, acc) ==
    IF lines = <<>> THEN acc
    ELSE LoadLines(Tail(lines), ParseFields(Split(Strip(Head(lines)), <<",", SP>>), acc))

\* load_sorted_entries(filename) on a file that opens, with content text:
\* next(file) raises StopIteration on an empty file, which neither except
\* clause catches.
load_sorted_entries(text) ==
    LET lines == FileLines(text)
    IN  IF lines = <<>>
        THEN [entries |-> <<>>, printed |-> <<>>, raised |-> ExitStopIteration]
        ELSE LET r == LoadLines(Tail(lines), [entries |-> <<>>, printed |-> <<>>])
             IN  [entries |-> r.entries, printed |-> r.printed, raised |-> NoException]

\* get_available_domains with <= in place of ==.
RECURSIVE get_available_domains_UpTo(_, _)
get_available_domains_UpTo(es, target) ==
    IF es = <<>> THEN <<>>
    ELSE (IF ~DateLT(target, Head(es)[2]) THEN <<Head(es)[1]>> ELSE <<>>)
         \o get_available_domains_UpTo(Tail(es), target)

\* get_available_domains(entries, target_date)
RECURSIVE get_available_domains(_, _)
get_available_domains(es, target) ==
    IF es = <<>> THEN <<>>
    ELSE (IF Head(es)[2] = target THEN <<Head(es)[1]>> ELSE <<>>)
         \o get_available_domains(Tail(es), target)

\* analyze_domains_with_chatgpt(domains): the possible results and the
\* number of requests made to the service.  The client is constructed
\* outside the try block, so an error it raises (the library raises
\* OpenAIError when no API key is configured) leaves the function uncaught,
\* before any request; errors of the request itself come back as text.
analyze_domains_with_chatgpt(domains) ==
    IF domains = <<>>
    THEN {[analysis |-> MsgNothingToAnalyze, calls |-> 0, raised |-> NoException]}
    ELSE {[analysis |-> a, calls |-> 1, raised |-> NoException] :
            a \in {"analysis text", "OpenAI API Error", "Unexpected Error"}}
         \cup {[analysis |-> NoAnalysis, calls |-> 0, raised |-> ExitOpenAIError]}

----------------------------------------------------------------------------
(* The inputs of a run.                                                    *)

\* Largest number of lines (joined by newlines) in a downloaded feed.
MaxLines == 3

D0105 == <<"2", "0", "2", "4", "-", "0", "1", "-", "0", "5">>
D13 == <<"2", "0", "2", "4", "-", "1", "-", "3">>
D1340 == <<"2", "0", "2", "4", "-", "1", "3", "-", "4", "0">>

\* Lines a feed is made of: two domains with the same date, an earlier date
\* written without zero padding, a domain holding the cache's field
\* separator, a line with an empty date field, and the blank line.
FeedLines ==
    { <<"a", TAB>> \o D0105,
      <<"b", TAB>> \o D0105,
      <<"c", TAB>> \o D13,
      <<"a", ",", SP, "b", TAB>> \o D0105,
      <<"a", TAB>>,
      <<>> }

FeedTexts == {Join(ls, <<NL>>) : ls \in UNION {[1..n -> FeedLines] : n \in 0..MaxLines}}

\* Values of --date: not given, empty, two valid dates, an impossible one.
ArgDates == {None, <<>>, D0105, D13, D1340}

----------------------------------------------------------------------------
(* State.                                                                  *)

VARIABLES
    cacheFile,          \* content of sorted_domains.txt, None while it does not exist
    pc,                 \* position of the running process in main
    argDate,            \* args.date
    argChatgpt,         \* args.chatgpt
    content,            \* result of download_file
    entries,            \* result of parse_file_content
    sorted_entries,     \* main's sorted_entries
    target_date,        \* main's target_date
    available_domains,  \* main's available_domains
    availableFile,      \* available_domains_<date>.txt as written by this run
    analysis,           \* result of analyze_domains_with_chatgpt
    requests,           \* feed downloads requested by this run
    advisoryCalls,      \* requests this run made to the chat service
    stdout,             \* messages printed by this run
    exit,               \* exit status of the run, Running until it exits
    trace,              \* steps this run has executed, in order
    cacheAtStart,       \* whether the cache file existed when this run started
    saved               \* the Records of the last complete save of the cache

locals == <<argDate, argChatgpt, content, entries, sorted_entries, target_date,
            available_domains, availableFile, analysis, requests, advisoryCalls,
            stdout, exit, trace, cacheAtStart>>

vars == <<cacheFile, pc, locals, saved>>

NoSave == [complete |-> FALSE, entries |-> <<>>]

Init ==
    /\ cacheFile = None
    /\ pc = "idle"
    /\ argDate = None
    /\ argChatgpt = FALSE
    /\ content = None
    /\ entries = <<>>
    /\ sorted_entries = <<>>
    /\ target_date = None
    /\ available_domains = <<>>
    /\ availableFile = None
    /\ analysis = NoAnalysis
    /\ requests = 0
    /\ advisoryCalls = 0
    /\ stdout = <<>>
    /\ exit = Running
    /\ trace = <<>>
    /\ cacheAtStart = FALSE
    /\ saved = NoSave

----------------------------------------------------------------------------
(* The steps of main.                                                      *)

\* A process starts: argparse reads the command line.  A new run can start
\* once the previous one has exited.
ParseArgs ==
    /\ pc \in {"idle", "exited"}
    /\ \E d \in ArgDates, c \in BOOLEAN :
          /\ argDate' = d
          /\ argChatgpt' = c
    /\ content' = None
    /\ entries' = <<>>
    /\ sorted_entries' = <<>>
    /\ target_date' = None
    /\ available_domains' = <<>>
    /\ availableFile' = None
    /\ analysis' = NoAnalysis
    /\ requests' = 0
    /\ advisoryCalls' = 0
    /\ stdout' = <<>>
    /\ exit' = Running
    /\ trace' = <<"args">>
    /\ cacheAtStart' = (cacheFile # None)
    /\ pc' = "exists"
    /\ UNCHANGED <<cacheFile, saved>>

\* CheckCache with the test of the cache file lost: every run downloads.
CheckCache_AlwaysFetch ==
    /\ pc = "exists"
    /\ pc' = "download"
    /\ trace' = Append(trace, "exists")
    /\ UNCHANGED <<cacheFile, saved, argDate, argChatgpt, content, entries,
                   sorted_entries, target_date, available_domains, availableFile,
                   analysis, requests, advisoryCalls, stdout, exit, cacheAtStart>>

\* if not os.path.exists(SORTED_FILE)
CheckCache ==
    /\ pc = "exists"
    /\ pc' = IF cacheFile = None THEN "download" ELSE "load"
    /\ trace' = Append(trace, "exists")
    /\ UNCHANGED <<cacheFile, saved, argDate, argChatgpt, content, entries,
                   sorted_entries, target_date, available_domains, availableFile,
                   analysis, requests, advisoryCalls, stdout, exit, cacheAtStart>>

\* download_file, and the exit of download_and_process_data when it fails.
DownloadFile ==
    /\ pc = "download"
    /\ requests' = requests + 1
    /\ trace' = Append(trace, "fetch")
    /\ \/ /\ content' \in FeedTexts
          /\ pc' = "parse"
          /\ UNCHANGED <<stdout, exit>>
       \/ /\ content' = None
          /\ stdout' = Append(stdout, "Error downloading the file")
          /\ exit' = ExitDownload
          /\ pc' = "exited"
    /\ UNCHANGED <<cacheFile, saved, argDate, argChatgpt, entries, sorted_entries,
                   target_date, available_domains, availableFile, analysis,
                   advisoryCalls, cacheAtStart>>

\* ParseFileContent without the exit on an empty list of entries.
ParseFileContent_NoExit ==
    /\ pc = "parse"
    /\ LET r == parse_file_content(content)
       IN  /\ entries' = r.entries
           /\ stdout' = stdout \o r.printed
    /\ pc' = "sort"
    /\ trace' = Append(trace, "parse")
    /\ UNCHANGED <<cacheFile, saved, argDate, argChatgpt, content, sorted_entries,
                   target_date, available_domains, availableFile, analysis,
                   requests, advisoryCalls, exit, cacheAtStart>>

\* parse_file_content, and the exit of download_and_process_data when no
\* entry is valid.
ParseFileContent ==
    /\ pc = "parse"
    /\ LET r == parse_file_content(content)
       IN  /\ entries' = r.entries
           /\ stdout' = stdout \o r.printed
           /\ IF r.entries = <<>>
              THEN exit' = ExitNoEntries /\ pc' = "exited"
              ELSE exit' = exit /\ pc' = "sort"
    /\ trace' = Append(trace, "parse")
    /\ UNCHANGED <<cacheFile, saved, argDate, argChatgpt, content, sorted_entries,
                   target_date, available_domains, availableFile, analysis,
                   requests, advisoryCalls, cacheAtStart>>

SortEntries ==
    /\ pc = "sort"
    /\ sorted_entries' = sort_entries_by_date(entries)
    /\ pc' = "save_cache"
    /\ trace' = Append(trace, "sort")
    /\ UNCHANGED <<cacheFile, saved, argDate, argChatgpt, content, entries,
                   target_date, available_domains, availableFile, analysis,
                   requests, advisoryCalls, stdout, exit, cacheAtStart>>

\* save_to_file(SORTED_FILE, "domain, date", [...])
SaveCache ==
    /\ pc = "save_cache"
    /\ \E o \in save_to_file(cacheFile, CacheHeader, CacheRows(sorted_entries)) :
          /\ cacheFile' = o.file
          /\ stdout' = Append(stdout, o.printed)
          /\ saved' = IF o.printed = MsgSaved
                      THEN [complete |-> TRUE, entries |-> sorted_entries]
                      ELSE NoSave
    /\ pc' = "date"
    /\ trace' = Append(trace, "save_cache")
    /\ UNCHANGED <<argDate, argChatgpt, content, entries, sorted_entries,
                   target_date, available_domains, availableFile, analysis,
                   requests, advisoryCalls, exit, cacheAtStart>>

\* load_sorted_entries(SORTED_FILE): the file opens and is read, or open()
\* raises an IOError, which is printed and leaves the list empty.
LoadSortedEntries ==
    /\ pc = "load"
    /\ trace' = Append(trace, "load")
    /\ \/ LET r == load_sorted_entries(cacheFile)
          IN  /\ sorted_entries' = r.entries
              /\ stdout' = stdout \o r.printed
              /\ IF r.raised = NoException
                 THEN exit' = exit /\ pc' = "date"
                 ELSE exit' = r.raised /\ pc' = "exited"
       \/ /\ sorted_entries' = <<>>
          /\ stdout' = Append(stdout, MsgReadError)
          /\ exit' = exit
          /\ pc' = "date"
    /\ UNCHANGED <<cacheFile, saved, argDate, argChatgpt, content, entries,
                   target_date, available_domains, availableFile, analysis,
                   requests, advisoryCalls, cacheAtStart>>

\* if args.date: ... strptime ... else: print(...)
CheckDate ==
    /\ pc = "date"
    /\ trace' = Append(trace, "date")
    /\ IF argDate = None \/ argDate = <<>>
       THEN /\ stdout' = Append(stdout, MsgNoDate)
            /\ exit' = ExitNormal
            /\ pc' = "exited"
            /\ UNCHANGED target_date
       ELSE LET d == Strptime(argDate)
            IN  IF d = None
                THEN /\ exit' = ExitBadDate
                     /\ pc' = "exited"
                     /\ UNCHANGED <<stdout, target_date>>
                ELSE /\ target_date' = d
                     /\ pc' = "filter"
                     /\ UNCHANGED <<stdout, exit>>
    /\ UNCHANGED <<cacheFile, saved, argDate, argChatgpt, content, entries,
                   sorted_entries, available_domains, availableFile, analysis,
                   requests, advisoryCalls, cacheAtStart>>

\* FilterDomains with the analysis requested before the matches are
\* printed and saved.
FilterDomains_AdvisoryFirst ==
    /\ pc = "filter"
    /\ trace' = Append(trace, "filter")
    /\ LET r == get_available_domains(sorted_entries, target_date)
       IN  /\ available_domains' = r
           /\ IF r # <<>>
              THEN /\ pc' = IF argChatgpt THEN "analyze" ELSE "print"
                   /\ UNCHANGED <<stdout, exit>>
              ELSE /\ stdout' = Append(stdout, MsgNoDomains)
                   /\ exit' = ExitNormal
                   /\ pc' = "exited"
    /\ UNCHANGED <<cacheFile, saved, argDate, argChatgpt, content, entries,
                   sorted_entries, target_date, availableFile, analysis,
                   requests, advisoryCalls, cacheAtStart>>

\* available_domains = get_available_domains(...), and the else branch
\* that reports that nothing matched.
FilterDomains ==
    /\ pc = "filter"
    /\ trace' = Append(trace, "filter")
    /\ LET r == get_available_domains(sorted_entries, target_date)
       IN  /\ available_domains' = r
           /\ IF r # <<>>
              THEN /\ pc' = "print"
                   /\ UNCHANGED <<stdout, exit>>
              ELSE /\ stdout' = Append(stdout, MsgNoDomains)
                   /\ exit' = ExitNormal
                   /\ pc' = "exited"
    /\ UNCHANGED <<cacheFile, saved, argDate, argChatgpt, content, entries,
                   sorted_entries, target_date, availableFile, analysis,
                   requests, advisoryCalls, cacheAtStart>>

\* print(f"Domains available on ..."); print("\n".join(available_domains))
PrintDomains ==
    /\ pc = "print"
    /\ trace' = Append(trace, "print")
    /\ stdout' = Append(stdout, MsgDomains)
    /\ pc' = "save_available"
    /\ UNCHANGED <<cacheFile, saved, argDate, argChatgpt, content, entries,
                   sorted_entries, target_date, available_domains, availableFile,
                   analysis, requests, advisoryCalls, exit, cacheAtStart>>

\* SaveAvailable without the test of args.chatgpt.
SaveAvailable_AlwaysAnalyze ==
    /\ pc = "save_available"
    /\ trace' = Append(trace, "save_available")
    /\ \E o \in save_to_file(availableFile, AvailableHeader, available_domains) :
          /\ availableFile' = o.file
          /\ stdout' = Append(stdout, o.printed)
    /\ pc' = "analyze"
    /\ exit' = exit
    /\ UNCHANGED <<cacheFile, saved, argDate, argChatgpt, content, entries,
                   sorted_entries, target_date, available_domains, analysis,
                   requests, advisoryCalls, cacheAtStart>>

\* save_to_file(available_file, "domain", available_domains); if args.chatgpt
SaveAvailable ==
    /\ pc = "save_available"
    /\ trace' = Append(trace, "save_available")
    /\ \E o \in save_to_file(availableFile, AvailableHeader, available_domains) :
          /\ availableFile' = o.file
          /\ stdout' = Append(stdout, o.printed)
    /\ IF argChatgpt
       THEN pc' = "analyze" /\ exit' = exit
       ELSE pc' = "exited" /\ exit' = ExitNormal
    /\ UNCHANGED <<cacheFile, saved, argDate, argChatgpt, content, entries,
                   sorted_entries, target_date, available_domains, analysis,
                   requests, advisoryCalls, cacheAtStart>>

\* analysis = analyze_domains_with_chatgpt(available_domains)
AnalyzeDomains ==
    /\ pc = "analyze"
    /\ trace' = Append(trace, "advisory")
    /\ \E r \in analyze_domains_with_chatgpt(available_domains) :
          /\ analysis' = r.analysis
          /\ advisoryCalls' = advisoryCalls + r.calls
          /\ IF r.raised = NoException
             THEN exit' = exit /\ pc' = "display"
             ELSE exit' = r.raised /\ pc' = "exited"
    /\ UNCHANGED <<cacheFile, saved, argDate, argChatgpt, content, entries,
                   sorted_entries, target_date, available_domains, availableFile,
                   requests, stdout, cacheAtStart>>

\* display_analysis(available_domains, analysis), then main returns.
DisplayAnalysis ==
    /\ pc = "display"
    /\ trace' = Append(trace, "display")
    /\ stdout' = Append(stdout, IF available_domains = <<>>
                                THEN "No domains available for analysis."
                                ELSE MsgAnalysis)
    /\ exit' = ExitNormal
    /\ pc' = "exited"
    /\ UNCHANGED <<cacheFile, saved, argDate, argChatgpt, content, entries,
                   sorted_entries, target_date, available_domains, availableFile,
                   analysis, requests, advisoryCalls, cacheAtStart>>

Next ==
    \/ ParseArgs
    \/ CheckCache
    \/ DownloadFile
    \/ ParseFileContent
    \/ SortEntries
    \/ SaveCache
    \/ LoadSortedEntries
    \/ CheckDate
    \/ FilterDomains
    \/ PrintDomains
    \/ SaveAvailable
    \/ AnalyzeDomains
    \/ DisplayAnalysis

Spec == Init /\ [][Next]_vars

----------------------------------------------------------------------------
(* Properties.                                                             *)

InTrace(step) == \E i \in DOMAIN trace : trace[i] = step

Printed(msg) == \E i \in DOMAIN stdout : stdout[i] = msg

Count(seq, S) == Cardinality({i \in DOMAIN seq : seq[i] \in S})

IsPrefix(s, t) == Len(s) <= Len(t) /\ Take(t, Len(s)) = s

\* The Records of es that carry the date d, in order.
WithDate(es, d) == LET Test(e) == e[2] = d IN SelectSeq(es, Test)

\* C1: a run that loads a completely saved cache gets the saved Records
\* back, element for element and in the same order.
C1_RoundTrip ==
    (pc = "date" /\ InTrace("load") /\ saved.complete /\ ~Printed(MsgReadError))
        => sorted_entries = saved.entries

\* C2: a run that started while the cache file existed requests no
\* download, and the Records it uses are those read from the cache file.
C2_NoFetchWhileCached ==
    cacheAtStart =>
        /\ requests = 0
        /\ content = None
        /\ ~InTrace("fetch")
        /\ pc \in {"date", "filter", "print", "save_available", "analyze", "display"}
              => sorted_entries = IF Printed(MsgReadError) THEN <<>>
                                  ELSE load_sorted_entries(cacheFile).entries

C2_Witness ==
    cacheAtStart /\ pc = "exited" /\ exit = ExitNormal /\ available_domains # <<>>

\* C3: the filter returns the domains of exactly the Records whose date is
\* the target date, one per matching Record, in the order of the input.
C3_FilterCorrect ==
    InTrace("filter") =>
        LET idx == {i \in DOMAIN sorted_entries : sorted_entries[i][2] = target_date}
            rank(i) == Cardinality({j \in idx : j <= i})
        IN  /\ Len(available_domains) = Cardinality(idx)
            /\ \A i \in idx : available_domains[rank(i)] = sorted_entries[i][1]

C3_Witness ==
    /\ InTrace("filter")
    /\ Len(available_domains) = 2
    /\ Len(sorted_entries) > 2

\* C4: the Records returned by the parser plus the warnings it printed are
\* as many as the lines of the feed text, and the Records are in the order
\* of their lines.
C4_ParseTotal ==
    InTrace("parse") =>
        LET lines == SplitLines(content)
        IN  /\ Len(entries) + Count(stdout, {MsgMalformed, MsgInvalidDate}) = Len(lines)
            /\ \E f \in [DOMAIN entries -> DOMAIN lines] :
                  /\ \A i, j \in DOMAIN entries : i < j => f[i] < f[j]
                  /\ \A i \in DOMAIN entries :
                        Split(lines[f[i]], <<TAB>>)[1] = entries[i][1]

\* C5: the sorted list is ascending by date, holds the same Records as the
\* input with Records of equal date in their input order, and sorting it
\* again changes nothing.
C5_SortStable ==
    InTrace("sort") =>
        /\ Len(sorted_entries) = Len(entries)
        /\ \A i, j \in DOMAIN sorted_entries :
              i < j => ~DateLT(sorted_entries[j][2], sorted_entries[i][2])
        /\ \A k \in DOMAIN entries :
              WithDate(sorted_entries, entries[k][2]) = WithDate(entries, entries[k][2])
        /\ sort_entries_by_date(sorted_entries) = sorted_entries

C5_Witness ==
    /\ InTrace("sort")
    /\ sorted_entries # entries
    /\ \E i, j \in DOMAIN entries :
          i < j /\ entries[i][2] = entries[j][2] /\ entries[i][1] # entries[j][1]

\* C6: the chat service is called at most once per run, and only when
\* --chatgpt is set, --date is a valid date and some domain matched; when
\* nothing matched the run prints the no-domains message and calls nothing;
\* on an empty list the analysis is the fixed string and no call is made.
C6_AdvisoryGuard ==
    /\ advisoryCalls <= 1
    /\ (advisoryCalls > 0 \/ InTrace("advisory")) =>
          /\ argChatgpt
          /\ argDate # None
          /\ Strptime(argDate) # None
          /\ available_domains # <<>>
    /\ (InTrace("filter") /\ available_domains = <<>>) =>
          /\ Printed(MsgNoDomains)
          /\ advisoryCalls = 0
          /\ pc = "exited"
    /\ analyze_domains_with_chatgpt(<<>>)
          = {[analysis |-> MsgNothingToAnalyze, calls |-> 0, raised |-> NoException]}

C6_Witness == advisoryCalls = 1 /\ pc = "exited" /\ Printed(MsgAnalysis)

\* C7: a run ends abnormally only on a failed download without cache, on a
\* feed without a valid entry, or on an invalid --date.
C7_OnlyThreeFatal ==
    (pc = "exited" /\ exit # ExitNormal) =>
        \/ exit = ExitDownload /\ ~cacheAtStart /\ content = None
        \/ exit = ExitNoEntries /\ InTrace("fetch") /\ entries = <<>>
        \/ exit = ExitBadDate /\ argDate # None /\ Strptime(argDate) = None

\* C8: with a --date value that is no valid date the run ends with an
\* error, and it neither filters, nor writes the dated file, nor calls the
\* chat service.
C8_BadDateFatal ==
    (argDate # None /\ Strptime(argDate) = None) =>
        /\ ~InTrace("filter")
        /\ availableFile = None
        /\ advisoryCalls = 0
        /\ pc = "exited" => exit # ExitNormal

\* The order the claim gives to the steps of a run.
ClaimedRank(step) ==
    CASE step \in {"fetch", "load"} -> 1
      [] step = "parse" -> 2
      [] step = "sort" -> 3
      [] step = "save_cache" -> 4
      [] step = "filter" -> 5
      [] step = "advisory" -> 6
      [] step \in {"print", "save_available", "display"} -> 7
      [] OTHER -> 0

\* C9 as claimed: the steps of a run follow the order fetch or load, parse,
\* sort, save of the cache, filter, advisory call, print and save of the
\* results.
C9_ClaimedOrder ==
    \A i, j \in DOMAIN trace :
        (i < j /\ ClaimedRank(trace[i]) > 0 /\ ClaimedRank(trace[j]) > 0)
            => ClaimedRank(trace[i]) <= ClaimedRank(trace[j])

FetchPath ==
    <<"args", "exists", "fetch", "parse", "sort", "save_cache", "date", "filter",
      "print", "save_available", "advisory", "display">>

LoadPath ==
    <<"args", "exists", "load", "date", "filter",
      "print", "save_available", "advisory", "display">>

\* C9 as amended: the steps of a run follow the order fetch, parse, sort,
\* save of the cache (or load alone), filter, print, save of the dated
\* file, advisory call, display of the analysis.
C9_CodeOrder == IsPrefix(trace, FetchPath) \/ IsPrefix(trace, LoadPath)

C9_Witness == pc = "exited" /\ InTrace("advisory") /\ InTrace("fetch")

\* C10: the cache file changes only in the save step of a run that found
\* no cache, downloaded the feed and parsed at least one Record; a run that
\* ends on a failed download or on a feed without entries leaves it absent.
C10_CacheWrittenOnce ==
    /\ [][cacheFile' # cacheFile =>
            /\ pc = "save_cache"
            /\ ~cacheAtStart
            /\ requests = 1
            /\ content # None
            /\ sorted_entries # <<>>]_vars
    /\ [](exit \in {ExitDownload, ExitNoEntries} => cacheFile = None)

C10_Witness ==
    pc = "exited" /\ ~cacheAtStart /\ cacheFile # None /\ saved.complete

====
